---- MODULE Spec2Model ----
(***************************************************************************)
(* State machine of the rainbase poker contract (contract/src/lib.rs).     *)
(*                                                                         *)
(* The registry `games` maps a GameId to a Game (a lobby or an in-progress *)
(* GameState).  Every entry point reads a copy of the record with          *)
(* LookupMap::get, works on the copy and panics on a failed check; only    *)
(* create_game and start_game call LookupMap::insert.                      *)
(*                                                                         *)
(* Seats are 0-based as in the source, so per-seat vectors are functions   *)
(* over 0..n-1.  The cryptographic collaborator is outside the repository: *)
(* the outcome of a proof verification is an input of the call.            *)
(***************************************************************************)
EXTENDS Integers, Sequences, FiniteSets, TLC

VARIABLES games, now, last

vars == <<games, now, last>>

\* ------------------------------------------------------------------ bounds
\* most seats a game is started with
MaxPlayers == 3
\* largest chip balance a seat starts with
MaxBalance == 12
\* number of game identifiers the random generator can draw
MaxGameIds == 1
\* latest block timestamp, in units of TimeUnit
MaxTime == 4
\* best hand score the evaluator returns
MaxScore == 2

\* ------------------------------------------------------- program constants
LITTLE_BLIND_AMOUNT == 5
BIG_BLIND_AMOUNT == 10
\* cards in the deck: init_deck's length check, pp.num_cards() for M=2, N=26
DeckSize == 52

None == -1

Accounts == 1..(MaxPlayers + 1)
GameIds == 1..MaxGameIds
Cards == 0..(DeckSize - 1)
\* distinct token-with-proof buffers a caller may submit for one slot
TokenVals == {1}

\* ------------------------------------------------------------- BetAmount
AllIn == [tag |-> "AllIn", amt |-> 0]
In(a) == [tag |-> "In", amt |-> a]
Folded(a) == [tag |-> "Folded", amt |-> a]

\* ---------------------------------------------------------------- Balance
\* Balance is u128.  A value is held as its residue nearest zero, so a negative
\* number n stands for 2^128 + n; sums and differences are then exact modulo
\* 2^128 and the unsigned order is ult.
ult(a, b) ==
    IF (a >= 0) = (b >= 0) THEN a < b ELSE a >= 0

ule(a, b) == a = b \/ ult(a, b)

\* a += b, a -= b: the value, and whether the u128 operation overflowed
add_overflows(a, b) ==
    \/ a < 0 /\ b < 0
    \/ a < 0 /\ b >= 0 /\ a + b >= 0
    \/ b < 0 /\ a >= 0 /\ a + b >= 0

sub_overflows(a, b) == ult(a, b)

\* ------------------------------------------------------------- GameState
num_players(s) == Cardinality(DOMAIN s.player_account_ids)

Seats(s) == 0..(num_players(s) - 1)

is_player(s, account_id) == \E i \in Seats(s) : s.player_account_ids[i] = account_id

player_index(s, account_id) ==
    CHOOSE i \in Seats(s) :
        /\ s.player_account_ids[i] = account_id
        /\ \A j \in Seats(s) : s.player_account_ids[j] = account_id => i <= j

NoTokens == [x \in {} |-> 0]

reset_reveal_tokens(s) == [s EXCEPT !.reveal_tokens_with_proofs = NoTokens]

\* reveal_tokens_with_proofs[card_idx][player_idx], None when the slot is empty
token_at(s, card_idx, player_idx) ==
    IF <<card_idx, player_idx>> \in DOMAIN s.reveal_tokens_with_proofs
    THEN s.reveal_tokens_with_proofs[<<card_idx, player_idx>>]
    ELSE None

set_reveal_token(s, card_idx, player_idx, token) ==
    [s EXCEPT !.reveal_tokens_with_proofs =
        [x \in (DOMAIN s.reveal_tokens_with_proofs) \cup {<<card_idx, player_idx>>} |->
            IF x = <<card_idx, player_idx>> THEN token
            ELSE s.reveal_tokens_with_proofs[x]]]

set_revealed_player(s, player_idx) ==
    [s EXCEPT !.revealed_players[player_idx] = TRUE]

reset_revealed_players(s) ==
    [s EXCEPT !.revealed_players = [i \in Seats(s) |-> FALSE]]

all_players_revealed(s) == \A i \in Seats(s) : s.revealed_players[i]

reset_checks(s) == [s EXCEPT !.checks = [i \in Seats(s) |-> FALSE]]

player_is_folded(s, i) == s.bets[i].tag = "Folded"

num_players_in(s) == Cardinality({i \in Seats(s) : ~player_is_folded(s, i)})

num_players_checked(s) == Cardinality({i \in Seats(s) : s.checks[i]})

\* enough_players_checked counting the folded seats among those to check
enough_players_checked_of_all(s) == num_players(s) = num_players_checked(s)

enough_players_checked(s) == num_players_in(s) = num_players_checked(s)

reset_bets(s) == [s EXCEPT !.bets = [i \in Seats(s) |-> In(0)]]

\* player_can_check letting any stake that is still in check
player_can_check_any_stake(s) ==
    LET b == s.bets[s.turn] IN
    CASE b.tag = "In" -> TRUE
      [] b.tag = "AllIn" -> TRUE
      [] OTHER -> FALSE

player_can_check(s) ==
    LET b == s.bets[s.turn] IN
    CASE b.tag = "In" -> b.amt = s.ante
      [] b.tag = "AllIn" -> TRUE
      [] OTHER -> FALSE

player_can_call(s) ==
    LET b == s.bets[s.turn] IN
    CASE b.tag = "In" -> ule(s.ante, s.balances[s.turn])
      [] OTHER -> FALSE

player_can_all_in(s) == s.bets[s.turn].tag = "In"

player_can_fold(s) == s.bets[s.turn].tag \in {"AllIn", "In"}

player_can_raise(s) ==
    LET b == s.bets[s.turn] IN
    CASE b.tag = "In" -> ult(s.ante, s.balances[s.turn])
      [] OTHER -> FALSE

\* the loop of next_in_player: i is the seat looked at, count the seats passed
RECURSIVE next_in_loop(_, _, _)
next_in_loop(s, i, count) ==
    IF ~player_is_folded(s, i) THEN i
    ELSE IF count + 1 = num_players(s) THEN None
    ELSE next_in_loop(s, (i + 1) % num_players(s), count + 1)

\* next_in_player starting its search at the seat at turn
next_in_player_from_turn(s) == next_in_loop(s, s.turn, 0)

next_in_player(s) == next_in_loop(s, (s.turn + 1) % num_players(s), 0)

\* a handler's outcome: the record after the call, or a panic (the record as read)
Done(s) == [ok |-> TRUE, st |-> s]
Panic(s) == [ok |-> FALSE, st |-> s]

\* transfer_one crediting the winner without debiting the loser
transfer_one_credit_only(r, winner, loser, overflow_checks) ==
    LET s == r.st
        bet == s.bets[loser]
        amount == IF bet.tag = "AllIn" THEN s.balances[loser] ELSE bet.amt
    IN  IF ~r.ok \/ loser = winner THEN r
        ELSE Done([s EXCEPT !.balances[winner] = @ + amount])

\* one iteration of transfer_pot's loop for seat `loser`; overflow_checks is the
\* build's setting: an overflowing += or -= panics when set and wraps when not
transfer_one(r, winner, loser, overflow_checks) ==
    LET s == r.st
        bet == s.bets[loser]
        amount == IF bet.tag = "AllIn" THEN s.balances[loser] ELSE bet.amt
        over == \/ add_overflows(s.balances[winner], amount)
                \/ bet.tag # "AllIn" /\ sub_overflows(s.balances[loser], amount)
    IN  IF ~r.ok \/ loser = winner THEN r
        ELSE IF over /\ overflow_checks THEN Panic(s)
        ELSE Done([s EXCEPT !.balances[winner] = @ + amount,
                            !.balances[loser] = IF bet.tag = "AllIn" THEN 0 ELSE @ - amount])

RECURSIVE transfer_from(_, _, _, _)
transfer_from(r, winner, loser, overflow_checks) ==
    IF loser >= num_players(r.st) THEN r
    ELSE transfer_from(transfer_one(r, winner, loser, overflow_checks),
                       winner, loser + 1, overflow_checks)

transfer_pot(s, winner, overflow_checks) == transfer_from(Done(s), winner, 0, overflow_checks)

\* reduce_hands keeping the hand held so far unless the next one is greater
RECURSIVE reduce_hands_keeping_first(_, _, _, _)
reduce_hands_keeping_first(s, scores, acc, k) ==
    IF k >= num_players(s) THEN acc
    ELSE IF player_is_folded(s, k) THEN reduce_hands_keeping_first(s, scores, acc, k + 1)
    ELSE IF acc = None THEN reduce_hands_keeping_first(s, scores, k, k + 1)
    ELSE reduce_hands_keeping_first(s, scores,
                                    IF scores[k] > scores[acc] THEN k ELSE acc, k + 1)

\* the reduce of do_showdown over hands[k..], acc the hand kept so far
RECURSIVE reduce_hands(_, _, _, _)
reduce_hands(s, scores, acc, k) ==
    IF k >= num_players(s) THEN acc
    ELSE IF player_is_folded(s, k) THEN reduce_hands(s, scores, acc, k + 1)
    ELSE IF acc = None THEN reduce_hands(s, scores, k, k + 1)
    ELSE reduce_hands(s, scores, IF scores[acc] > scores[k] THEN acc ELSE k, k + 1)

showdown_winner(s, scores) == reduce_hands(s, scores, None, 0)

\* card_recoverable content with the token of any one seat
card_recoverable_by_one(s, i) ==
    /\ i < s.deck
    /\ \E p \in Seats(s) : token_at(s, i, p) # None

\* every seat's slot of card i holds a token, and the deck has a card i
card_recoverable(s, i) ==
    /\ i < s.deck
    /\ \A p \in Seats(s) : token_at(s, i, p) # None

community_cards(s) == (num_players(s) * 2)..(num_players(s) * 2 + 4)

hole_cards(player) == {player * 2, player * 2 + 1}

\* scores: the evaluator's score of each seat's hand; crypto_ok: unmask, the card
\* mapping and the evaluator all succeed on the recovered values
do_showdown(s, scores, crypto_ok, overflow_checks) ==
    IF \E i \in community_cards(s) : ~card_recoverable(s, i) THEN Panic(s)
    ELSE IF \E player \in Seats(s) :
                /\ ~player_is_folded(s, player)
                /\ \E i \in hole_cards(player) : ~card_recoverable(s, i) THEN Panic(s)
    ELSE IF ~crypto_ok THEN Panic(s)
    ELSE IF showdown_winner(s, scores) = None THEN Panic(s)
    ELSE transfer_pot(s, showdown_winner(s, scores), overflow_checks)

new_round(s) ==
    [reset_reveal_tokens(reset_revealed_players(reset_checks(reset_bets(s))))
        EXCEPT !.ante = 0, !.turn = s.dealer]

\* GameState::new giving every seat a stack of chips
GameState_new_with_chips(id, player_account_ids, player_game_pubkeys, time) ==
    [id |-> id,
     player_account_ids |-> player_account_ids,
     phase |-> "SHUFFLE",
     turn |-> 0,
     dealer |-> 0,
     ante |-> 0,
     checks |-> [i \in DOMAIN player_account_ids |-> FALSE],
     revealed_players |-> [i \in DOMAIN player_account_ids |-> FALSE],
     bets |-> [i \in DOMAIN player_account_ids |-> In(0)],
     balances |-> [i \in DOMAIN player_account_ids |-> MaxBalance],
     last_modified |-> time,
     player_game_pubkeys |-> player_game_pubkeys,
     deck |-> 0,
     reveal_tokens_with_proofs |-> NoTokens]

\* GameState::new: balances are all 0 in the source
GameState_new(id, player_account_ids, player_game_pubkeys, time) ==
    [id |-> id,
     player_account_ids |-> player_account_ids,
     phase |-> "SHUFFLE",
     turn |-> 0,
     dealer |-> 0,
     ante |-> 0,
     checks |-> [i \in DOMAIN player_account_ids |-> FALSE],
     revealed_players |-> [i \in DOMAIN player_account_ids |-> FALSE],
     bets |-> [i \in DOMAIN player_account_ids |-> In(0)],
     balances |-> [i \in DOMAIN player_account_ids |-> 0],
     last_modified |-> time,
     player_game_pubkeys |-> player_game_pubkeys,
     deck |-> 0,
     reveal_tokens_with_proofs |-> NoTokens]

\* ------------------------------------------------------------ entry points
\* Each do_X is the body of Contract::X on the copy `s` read from the registry:
\* Done(record after the call) or Panic.

\* do_init_deck without the assertion that no deck has been set
do_init_deck_again(s, account_id, deck_len) ==
    IF s.player_account_ids[0] # account_id THEN Panic(s)
    ELSE IF deck_len # DeckSize THEN Panic(s)
    ELSE Done([new_round(s) EXCEPT !.deck = deck_len])

\* init_deck; deck_len is the length of the deck passed in
do_init_deck(s, account_id, deck_len) ==
    IF s.player_account_ids[0] # account_id THEN Panic(s)
    ELSE IF s.deck # 0 THEN Panic(s)
    ELSE IF deck_len # DeckSize THEN Panic(s)
    ELSE Done([new_round(s) EXCEPT !.deck = deck_len])

\* do_shuffle_deck without the assertion on turn
do_shuffle_deck_any_seat(s, account_id, proof_ok) ==
    IF ~is_player(s, account_id) THEN Panic(s)
    ELSE IF ~proof_ok THEN Panic(s)
    ELSE LET s1 == [reset_reveal_tokens(s) EXCEPT !.turn = (s.turn + 1) % num_players(s)]
         IN  Done(IF s1.turn = s1.dealer THEN [s1 EXCEPT !.phase = "DEAL"] ELSE s1)

\* shuffle_deck; proof_ok is verify_shuffle's verdict on the old deck, the new
\* deck and the proof (a verified shuffle has the old deck's length)
do_shuffle_deck(s, account_id, proof_ok) ==
    IF ~is_player(s, account_id) THEN Panic(s)
    ELSE IF s.turn # player_index(s, account_id) THEN Panic(s)
    ELSE IF ~proof_ok THEN Panic(s)
    ELSE LET s1 == [reset_reveal_tokens(s) EXCEPT !.turn = (s.turn + 1) % num_players(s)]
         IN  Done(IF s1.turn = s1.dealer THEN [s1 EXCEPT !.phase = "DEAL"] ELSE s1)

\* the verify-and-store loop of deal and reveal from the k-th pair on; every pair
\* carries the token `token`, and the bad-th pair (0: none) fails verify_reveal
RECURSIVE store_tokens(_, _, _, _, _, _)
store_tokens(s, player, card_indices, token, bad, k) ==
    IF k > Len(card_indices) THEN Done(s)
    ELSE IF card_indices[k] >= s.deck THEN Panic(s)
    ELSE IF bad = k THEN Panic(s)
    ELSE store_tokens(set_reveal_token(s, card_indices[k], player, token),
                      player, card_indices, token, bad, k + 1)

do_deal(s, account_id, card_indices, token, bad) ==
    IF s.phase # "DEAL" THEN Panic(s)
    ELSE IF ~is_player(s, account_id) THEN Panic(s)
    ELSE LET player_index_ == player_index(s, account_id)
             r == store_tokens(s, player_index_, card_indices, token, bad, 1)
             s1 == set_revealed_player(r.st, player_index_)
         IN  IF ~r.ok THEN r
             ELSE IF all_players_revealed(s1)
                  THEN Done([s1 EXCEPT !.phase = "BLIND",
                                       !.turn = (s1.dealer + 1) % num_players(s1)])
                  ELSE Done(s1)

\* blind staking the blind amount whatever the seat holds
do_blind_uncovered(s, account_id) ==
    IF s.phase # "BLIND" THEN Panic(s)
    ELSE IF ~is_player(s, account_id) THEN Panic(s)
    ELSE IF s.turn # player_index(s, account_id) THEN Panic(s)
    ELSE LET player_index_ == player_index(s, account_id)
             blind_amount == IF s.turn = (s.dealer + 1) % num_players(s)
                             THEN LITTLE_BLIND_AMOUNT ELSE BIG_BLIND_AMOUNT
             s1 == [s EXCEPT !.bets[player_index_] = In(blind_amount),
                             !.ante = blind_amount]
         IN  Done(IF s1.turn = (s1.dealer + 3) % num_players(s1)
                  THEN [s1 EXCEPT !.phase = "BET0"] ELSE s1)

do_blind(s, account_id) ==
    IF s.phase # "BLIND" THEN Panic(s)
    ELSE IF ~is_player(s, account_id) THEN Panic(s)
    ELSE IF s.turn # player_index(s, account_id) THEN Panic(s)
    ELSE LET player_index_ == player_index(s, account_id)
             player_balance == s.balances[player_index_]
             blind_amount == IF s.turn = (s.dealer + 1) % num_players(s)
                             THEN LITTLE_BLIND_AMOUNT ELSE BIG_BLIND_AMOUNT
             s1 == IF ult(player_balance, blind_amount)
                   THEN [s EXCEPT !.bets[player_index_] = AllIn,
                                  !.ante = s.balances[player_index_]]
                   ELSE [s EXCEPT !.bets[player_index_] = In(blind_amount),
                                  !.ante = blind_amount]
         IN  Done(IF s1.turn = (s1.dealer + 3) % num_players(s1)
                  THEN [s1 EXCEPT !.phase = "BET0"] ELSE s1)

BetPhases == {"BET0", "BET1", "BET2", "BET3"}

after_bet_phase(phase) ==
    CASE phase = "BET0" -> "FLOP"
      [] phase = "BET1" -> "TURN"
      [] phase = "BET2" -> "RIVER"
      [] phase = "BET3" -> "SHOWDOWN_REVEAL"

\* bet_action with an all-in that sets the ante to the seat's balance, whichever is larger
bet_action_all_in_sets_ante(s, player, f) ==
    CASE f.call /\ ~f.check /\ ~f.all_in /\ ~f.fold /\ f.raise = None ->
            IF ~player_can_call(s) THEN Panic(s)
            ELSE Done(reset_checks([s EXCEPT !.bets[player] = In(s.ante)]))
      [] ~f.call /\ f.check /\ ~f.all_in /\ ~f.fold /\ f.raise = None ->
            IF ~player_can_check(s) THEN Panic(s)
            ELSE Done([s EXCEPT !.checks[player] = TRUE])
      [] ~f.call /\ ~f.check /\ f.all_in /\ ~f.fold /\ f.raise = None ->
            IF ~player_can_all_in(s) THEN Panic(s)
            ELSE Done(reset_checks(
                    [s EXCEPT !.bets[player] = AllIn,
                              !.ante = s.balances[player]]))
      [] ~f.call /\ ~f.check /\ ~f.all_in /\ f.fold /\ f.raise = None ->
            IF ~player_can_fold(s) THEN Panic(s)
            ELSE Done([s EXCEPT !.bets[player] =
                                    IF s.bets[player].tag = "In"
                                    THEN Folded(s.bets[player].amt)
                                    ELSE Folded(s.balances[player]),
                                !.checks[player] = FALSE])
      [] ~f.call /\ ~f.check /\ ~f.all_in /\ ~f.fold /\ f.raise # None ->
            IF ~player_can_raise(s) THEN Panic(s)
            ELSE IF ~ult(s.ante, f.raise) THEN Panic(s)
            ELSE IF ~ule(f.raise, s.balances[player]) THEN Panic(s)
            ELSE Done(reset_checks([s EXCEPT !.bets[player] = In(f.raise),
                                             !.ante = f.raise]))
      [] OTHER -> Panic(s)

\* bet_action taking a call whatever else is requested with it
bet_action_call_with_any(s, player, f) ==
    CASE f.call ->
            IF ~player_can_call(s) THEN Panic(s)
            ELSE Done(reset_checks([s EXCEPT !.bets[player] = In(s.ante)]))
      [] ~f.call /\ f.check /\ ~f.all_in /\ ~f.fold /\ f.raise = None ->
            IF ~player_can_check(s) THEN Panic(s)
            ELSE Done([s EXCEPT !.checks[player] = TRUE])
      [] ~f.call /\ ~f.check /\ f.all_in /\ ~f.fold /\ f.raise = None ->
            IF ~player_can_all_in(s) THEN Panic(s)
            ELSE Done(reset_checks(
                    [s EXCEPT !.bets[player] = AllIn,
                              !.ante = IF ult(s.ante, s.balances[player])
                                       THEN s.balances[player] ELSE s.ante]))
      [] ~f.call /\ ~f.check /\ ~f.all_in /\ f.fold /\ f.raise = None ->
            IF ~player_can_fold(s) THEN Panic(s)
            ELSE Done([s EXCEPT !.bets[player] =
                                    IF s.bets[player].tag = "In"
                                    THEN Folded(s.bets[player].amt)
                                    ELSE Folded(s.balances[player]),
                                !.checks[player] = FALSE])
      [] ~f.call /\ ~f.check /\ ~f.all_in /\ ~f.fold /\ f.raise # None ->
            IF ~player_can_raise(s) THEN Panic(s)
            ELSE IF ~ult(s.ante, f.raise) THEN Panic(s)
            ELSE IF ~ule(f.raise, s.balances[player]) THEN Panic(s)
            ELSE Done(reset_checks([s EXCEPT !.bets[player] = In(f.raise),
                                             !.ante = f.raise]))
      [] OTHER -> Panic(s)

\* the match on (call, check, all_in, fold, raise) of bet; raise is None or Some(amount)
bet_action(s, player, f) ==
    CASE f.call /\ ~f.check /\ ~f.all_in /\ ~f.fold /\ f.raise = None ->
            IF ~player_can_call(s) THEN Panic(s)
            ELSE Done(reset_checks([s EXCEPT !.bets[player] = In(s.ante)]))
      [] ~f.call /\ f.check /\ ~f.all_in /\ ~f.fold /\ f.raise = None ->
            IF ~player_can_check(s) THEN Panic(s)
            ELSE Done([s EXCEPT !.checks[player] = TRUE])
      [] ~f.call /\ ~f.check /\ f.all_in /\ ~f.fold /\ f.raise = None ->
            IF ~player_can_all_in(s) THEN Panic(s)
            ELSE Done(reset_checks(
                    [s EXCEPT !.bets[player] = AllIn,
                              !.ante = IF ult(s.ante, s.balances[player])
                                       THEN s.balances[player] ELSE s.ante]))
      [] ~f.call /\ ~f.check /\ ~f.all_in /\ f.fold /\ f.raise = None ->
            IF ~player_can_fold(s) THEN Panic(s)
            ELSE Done([s EXCEPT !.bets[player] =
                                    IF s.bets[player].tag = "In"
                                    THEN Folded(s.bets[player].amt)
                                    ELSE Folded(s.balances[player]),
                                !.checks[player] = FALSE])
      [] ~f.call /\ ~f.check /\ ~f.all_in /\ ~f.fold /\ f.raise # None ->
            IF ~player_can_raise(s) THEN Panic(s)
            ELSE IF ~ult(s.ante, f.raise) THEN Panic(s)
            ELSE IF ~ule(f.raise, s.balances[player]) THEN Panic(s)
            ELSE Done(reset_checks([s EXCEPT !.bets[player] = In(f.raise),
                                             !.ante = f.raise]))
      [] OTHER -> Panic(s)

\* bet_settle leaving the stakes on the table when one seat is left
bet_settle_keeps_bets(s, overflow_checks) ==
    IF num_players_in(s) = 1 THEN
        LET winner == next_in_player(s)
            r == transfer_pot(s, winner, overflow_checks)
        IN  IF winner = None \/ ~r.ok THEN Panic(s)
            ELSE Done(reset_revealed_players(reset_checks(
                        [r.st EXCEPT !.phase = "SHUFFLE"])))
    ELSE IF enough_players_checked(s) THEN
        Done(reset_checks([s EXCEPT !.phase = after_bet_phase(s.phase)]))
    ELSE IF next_in_player(s) = None THEN Panic(s)
         ELSE Done([s EXCEPT !.turn = next_in_player(s)])

\* the if / else-if / else after the match: Done or Panic
bet_settle(s, overflow_checks) ==
    IF num_players_in(s) = 1 THEN
        LET winner == next_in_player(s)
            r == transfer_pot(s, winner, overflow_checks)
        IN  IF winner = None \/ ~r.ok THEN Panic(s)
            ELSE Done(reset_revealed_players(reset_checks(reset_bets(
                        [r.st EXCEPT !.phase = "SHUFFLE"]))))
    ELSE IF enough_players_checked(s) THEN
        Done(reset_checks([s EXCEPT !.phase = after_bet_phase(s.phase)]))
    ELSE IF next_in_player(s) = None THEN Panic(s)
         ELSE Done([s EXCEPT !.turn = next_in_player(s)])

\* the last statement of bet: turn = next_in_player().expect(..)
bet_advance(s) ==
    IF next_in_player(s) = None THEN Panic(s)
    ELSE Done([s EXCEPT !.turn = next_in_player(s)])

do_bet(s, account_id, f, overflow_checks) ==
    IF s.phase \notin BetPhases THEN Panic(s)
    ELSE IF ~is_player(s, account_id) THEN Panic(s)
    ELSE IF s.turn # player_index(s, account_id) THEN Panic(s)
    ELSE LET r1 == bet_action(s, player_index(s, account_id), f)
             r2 == bet_settle(r1.st, overflow_checks)
             r3 == bet_advance(r2.st)
         IN  IF r1.ok /\ r2.ok /\ r3.ok THEN r3 ELSE Panic(s)

RevealPhases == {"FLOP", "TURN", "RIVER", "SHOWDOWN_REVEAL"}

reveal_num_cards(phase) ==
    CASE phase = "FLOP" -> 3
      [] phase = "TURN" -> 1
      [] phase = "RIVER" -> 1
      [] phase = "SHOWDOWN_REVEAL" -> 2

after_reveal_phase(phase) ==
    CASE phase = "FLOP" -> "BET1"
      [] phase = "TURN" -> "BET2"
      [] phase = "RIVER" -> "BET3"
      [] phase = "SHOWDOWN_REVEAL" -> "SHOWDOWN"

\* the body of `if state.all_players_revealed()` in reveal
reveal_advance(s, scores, crypto_ok, overflow_checks) ==
    LET s1 == [s EXCEPT !.phase = after_reveal_phase(s.phase)]
    IN  IF s1.phase = "SHOWDOWN" THEN
            LET r == do_showdown(s1, scores, crypto_ok, overflow_checks)
            IN  IF ~r.ok THEN Panic(s)
                ELSE Done(new_round([r.st EXCEPT
                            !.phase = "SHUFFLE",
                            !.dealer = (s1.dealer + 1) % num_players(s1)]))
        ELSE
            LET s2 == [s1 EXCEPT !.turn = s1.dealer]
            IN  IF player_is_folded(s2, s2.dealer)
                THEN IF next_in_player(s2) = None THEN Panic(s)
                     ELSE Done(reset_revealed_players(
                                [s2 EXCEPT !.turn = next_in_player(s2)]))
                ELSE Done(reset_revealed_players(s2))

do_reveal(s, account_id, card_indices, token, bad, scores, crypto_ok, overflow_checks) ==
    IF ~is_player(s, account_id) THEN Panic(s)
    ELSE IF s.revealed_players[player_index(s, account_id)] THEN Panic(s)
    ELSE IF s.phase \notin RevealPhases THEN Panic(s)
    ELSE IF Len(card_indices) # reveal_num_cards(s.phase) THEN Panic(s)
    ELSE LET player == player_index(s, account_id)
             r == store_tokens(s, player, card_indices, token, bad, 1)
             s1 == [r.st EXCEPT !.revealed_players[player] = TRUE]
         IN  IF ~r.ok THEN r
             ELSE IF all_players_revealed(s1)
                  THEN LET r2 == reveal_advance(s1, scores, crypto_ok, overflow_checks)
                       IN  IF r2.ok THEN r2 ELSE Panic(s1)
                  ELSE Done(s1)

\* ---------------------------------------------------------------- registry
Absent == [kind |-> "Absent"]
WaitingForPlayers(lobby) == [kind |-> "WaitingForPlayers", lobby |-> lobby]
InProgress(state) == [kind |-> "InProgress", state |-> state]

\* block timestamps move in steps of TimeUnit
TimeUnit == 20 * 60 * 1000
LobbyStaleAfter == 20 * 60 * 1000
GameStaleAfter == 3600 * 1000

GameLobby_new(id, player_account_ids, player_game_pubkeys) ==
    [id |-> id,
     player_account_ids |-> player_account_ids,
     player_game_pubkeys |-> player_game_pubkeys,
     created_at |-> now]

\* a vector with element x pushed
push(v, x) ==
    [i \in 0..Cardinality(DOMAIN v) |-> IF i \in DOMAIN v THEN v[i] ELSE x]

add_player(lobby, account_id, game_pubkey) ==
    [lobby EXCEPT !.player_account_ids = push(@, account_id),
                  !.player_game_pubkeys = push(@, game_pubkey)]

\* the identifiers generate_game_id can return: not in the registry, or stale
free_game_id(digits) ==
    \/ games[digits].kind = "Absent"
    \/ /\ games[digits].kind = "InProgress"
       /\ now * TimeUnit - games[digits].state.last_modified * TimeUnit > GameStaleAfter
    \/ /\ games[digits].kind = "WaitingForPlayers"
       /\ now * TimeUnit - games[digits].lobby.created_at * TimeUnit > LobbyStaleAfter

\* do_join_game without the assertion that the caller is not yet listed
do_join_game_listed_or_not(lobby, account_id, pk, proof_ok) ==
    IF ~proof_ok THEN Panic(lobby)
    ELSE Done(add_player(lobby, account_id, pk))

\* join_game on the copy read: Done(lobby after the call) or Panic
do_join_game(lobby, account_id, pk, proof_ok) ==
    IF \E i \in DOMAIN lobby.player_account_ids : lobby.player_account_ids[i] = account_id
    THEN Panic(lobby)
    ELSE IF ~proof_ok THEN Panic(lobby)
    ELSE Done(add_player(lobby, account_id, pk))

\* what a call returns to its caller, and the block timestamp it ran at
Returned(op, game_id, account_id, ok) ==
    [op |-> op, id |-> game_id, caller |-> account_id, ok |-> ok, at |-> now]

\* an entry point that ends without LookupMap::insert: the registry keeps the
\* record it had, whatever the call did to its copy
NotInserted(op, game_id, account_id, r) ==
    /\ last' = Returned(op, game_id, account_id, r.ok)
    /\ UNCHANGED <<games, now>>

on_state(game_id) == games[game_id].kind = "InProgress"

\* ---- the results of the entry points on the record the registry holds
init_deck_result(game_id, account_id, deck_len) ==
    IF on_state(game_id) THEN do_init_deck(games[game_id].state, account_id, deck_len)
    ELSE Panic(games[game_id])

shuffle_deck_result(game_id, account_id, proof_ok) ==
    IF on_state(game_id) THEN do_shuffle_deck(games[game_id].state, account_id, proof_ok)
    ELSE Panic(games[game_id])

deal_result(game_id, account_id, card_indices, token, bad) ==
    IF on_state(game_id)
    THEN do_deal(games[game_id].state, account_id, card_indices, token, bad)
    ELSE Panic(games[game_id])

blind_result(game_id, account_id) ==
    IF on_state(game_id) THEN do_blind(games[game_id].state, account_id)
    ELSE Panic(games[game_id])

bet_result(game_id, account_id, f, overflow_checks) ==
    IF on_state(game_id) THEN do_bet(games[game_id].state, account_id, f, overflow_checks)
    ELSE Panic(games[game_id])

reveal_result(game_id, account_id, card_indices, token, bad, scores, crypto_ok, overflow_checks) ==
    IF on_state(game_id)
    THEN do_reveal(games[game_id].state, account_id, card_indices, token, bad,
                   scores, crypto_ok, overflow_checks)
    ELSE Panic(games[game_id])

join_game_result(game_id, account_id, pk, proof_ok) ==
    IF games[game_id].kind = "WaitingForPlayers"
    THEN do_join_game(games[game_id].lobby, account_id, pk, proof_ok)
    ELSE Panic(games[game_id])

\* a join_game call with outcome r, the lobby it leaves being written back
join_game_outcome(game_id, account_id, r) ==
    /\ games' = IF r.ok THEN [games EXCEPT ![game_id] = WaitingForPlayers(r.st)] ELSE games
    /\ last' = Returned("join_game", game_id, account_id, r.ok)
    /\ UNCHANGED now

\* ------------------------------------------------------------ the contract
\* a vector holding the one element x
vec(x) == [i \in {0} |-> x]

\* game_id is the identifier generate_game_id returns; its loop ends only on a
\* free identifier, so with none free the call runs out of gas
\* what create_game returns, with the verdict of verify_key_ownership on the
\* proof it was given
CreateReturned(game_id, account_id, ok, proof_ok) ==
    [op |-> "create_game", id |-> game_id, caller |-> account_id, ok |-> ok,
     at |-> now, proof_ok |-> proof_ok]

\* create_game going on to generate_game_id whatever verify_key_ownership says
create_game_unverified(account_id, creator_pk, proof_ok, game_id) ==
    /\ UNCHANGED now
    /\ IF ~(\E digits \in GameIds : free_game_id(digits))
       THEN /\ games' = games
            /\ last' = CreateReturned(None, account_id, FALSE, proof_ok)
       ELSE /\ free_game_id(game_id)
            /\ games' = [games EXCEPT ![game_id] = WaitingForPlayers(
                            GameLobby_new(game_id, vec(account_id), vec(creator_pk)))]
            /\ last' = CreateReturned(game_id, account_id, TRUE, proof_ok)

create_game(account_id, creator_pk, proof_ok, game_id) ==
    /\ UNCHANGED now
    /\ IF ~proof_ok \/ ~(\E digits \in GameIds : free_game_id(digits))
       THEN /\ games' = games
            /\ last' = CreateReturned(None, account_id, FALSE, proof_ok)
       ELSE /\ free_game_id(game_id)
            /\ games' = [games EXCEPT ![game_id] = WaitingForPlayers(
                            GameLobby_new(game_id, vec(account_id), vec(creator_pk)))]
            /\ last' = CreateReturned(game_id, account_id, TRUE, proof_ok)

join_game(game_id, account_id, pk, proof_ok) ==
    NotInserted("join_game", game_id, account_id,
                join_game_result(game_id, account_id, pk, proof_ok))

\* start_game without the assertion that the caller created the lobby
start_game_by_anyone(game_id, account_id) ==
    /\ UNCHANGED now
    /\ IF games[game_id].kind = "WaitingForPlayers"
       THEN /\ games' = [games EXCEPT ![game_id] = InProgress(
                            GameState_new(game_id,
                                          games[game_id].lobby.player_account_ids,
                                          games[game_id].lobby.player_game_pubkeys,
                                          now))]
            /\ last' = Returned("start_game", game_id, account_id, TRUE)
       ELSE /\ games' = games
            /\ last' = Returned("start_game", game_id, account_id, FALSE)

start_game(game_id, account_id) ==
    /\ UNCHANGED now
    /\ IF /\ games[game_id].kind = "WaitingForPlayers"
          /\ games[game_id].lobby.player_account_ids[0] = account_id
       THEN /\ games' = [games EXCEPT ![game_id] = InProgress(
                            GameState_new(game_id,
                                          games[game_id].lobby.player_account_ids,
                                          games[game_id].lobby.player_game_pubkeys,
                                          now))]
            /\ last' = Returned("start_game", game_id, account_id, TRUE)
       ELSE /\ games' = games
            /\ last' = Returned("start_game", game_id, account_id, FALSE)

init_deck(game_id, account_id, deck_len) ==
    NotInserted("init_deck", game_id, account_id,
                init_deck_result(game_id, account_id, deck_len))

shuffle_deck(game_id, account_id, proof_ok) ==
    NotInserted("shuffle_deck", game_id, account_id,
                shuffle_deck_result(game_id, account_id, proof_ok))

deal(game_id, account_id, card_indices, token, bad) ==
    NotInserted("deal", game_id, account_id,
                deal_result(game_id, account_id, card_indices, token, bad))

blind(game_id, account_id) ==
    NotInserted("blind", game_id, account_id, blind_result(game_id, account_id))

bet(game_id, account_id, f, overflow_checks) ==
    NotInserted("bet", game_id, account_id,
                bet_result(game_id, account_id, f, overflow_checks))

reveal(game_id, account_id, card_indices, token, bad, scores, crypto_ok, overflow_checks) ==
    NotInserted("reveal", game_id, account_id,
                reveal_result(game_id, account_id, card_indices, token, bad,
                              scores, crypto_ok, overflow_checks))

\* the block timestamp moves on between calls
Tick ==
    /\ now < MaxTime
    /\ now' = now + 1
    /\ UNCHANGED <<games, last>>

\* ------------------------------------------------------------------ inputs
\* the indices start..stop-1 other than those in `skip`, ascending
RECURSIVE range_without(_, _, _)
range_without(start, stop, skip) ==
    IF start >= stop THEN <<>>
    ELSE IF start \in skip THEN range_without(start + 1, stop, skip)
    ELSE <<start>> \o range_without(start + 1, stop, skip)

\* the cards seat `player` owes in DEAL (lib.rs 676-677): every hole card but its own
deal_indices(n, player) == range_without(0, 2 * n, hole_cards(player))

\* _indices_should_reveal of reveal
indices_should_reveal(n, phase, player) ==
    CASE phase = "FLOP" -> range_without(n * 2, n * 2 + 3, {})
      [] phase = "TURN" -> range_without(n * 2 + 3, n * 2 + 4, {})
      [] phase = "RIVER" -> range_without(n * 2 + 4, n * 2 + 5, {})
      [] phase = "SHOWDOWN_REVEAL" -> <<player * 2, player * 2 + 1>>
      [] OTHER -> <<>>

\* card index lists a caller passes in a phase: the owed ones, or none
CardIndexInputs(n, phase, player) ==
    IF phase \in RevealPhases
    THEN {indices_should_reveal(n, phase, player), <<>>}
    ELSE {deal_indices(n, player), <<>>}

\* the protocol public key an account submits
PubKey(account_id) == account_id

\* the flag combinations a caller of bet passes: raise is None or Some(amount)
AllBetFlags ==
    [call : BOOLEAN, check : BOOLEAN, all_in : BOOLEAN, fold : BOOLEAN,
     raise : {None, MaxBalance}]

requested(f) ==
    (IF f.call THEN 1 ELSE 0) + (IF f.check THEN 1 ELSE 0) + (IF f.all_in THEN 1 ELSE 0)
    + (IF f.fold THEN 1 ELSE 0) + (IF f.raise # None THEN 1 ELSE 0)

\* none, one or two requests at a time
BetFlags == {f \in AllBetFlags : requested(f) <= 2}

Scores(n) == [0..(n - 1) -> 1..MaxScore]

\* what a caller of deal or reveal submits with its card indices: the token
\* buffer, and which pair (0: none) fails verify_reveal
TokenInputs == [token : TokenVals, bad : 0..2]

\* what the collaborators answer at a showdown: the hand scores, whether unmask,
\* card mapping and evaluator succeed, and the build's overflow checks
ShowdownInputs(n) ==
    {[scores |-> sc, crypto_ok |-> TRUE, overflow_checks |-> oc] :
        sc \in Scores(n), oc \in BOOLEAN}
    \cup {[scores |-> [i \in 0..(n - 1) |-> 1], crypto_ok |-> FALSE,
           overflow_checks |-> TRUE]}

\* n and phase of the record a call on game_id reads (1 and SHUFFLE without one)
seats_of(game_id) ==
    IF on_state(game_id) THEN num_players(games[game_id].state) ELSE 1

phase_of(game_id) ==
    IF on_state(game_id) THEN games[game_id].state.phase ELSE "SHUFFLE"

seat_of(game_id, account_id) ==
    IF on_state(game_id) /\ is_player(games[game_id].state, account_id)
    THEN player_index(games[game_id].state, account_id) ELSE 0

\* bet reads its flags only after the phase, player and turn checks (lib.rs 749-754)
bet_reads_flags(game_id, account_id) ==
    /\ on_state(game_id)
    /\ games[game_id].state.phase \in BetPhases
    /\ is_player(games[game_id].state, account_id)
    /\ games[game_id].state.turn = player_index(games[game_id].state, account_id)

NoBet == [call |-> FALSE, check |-> FALSE, all_in |-> FALSE, fold |-> FALSE, raise |-> None]

\* what a caller of bet passes, and the build's overflow checks; one
\* representative where the call panics before reading them
BetInputs(game_id, account_id) ==
    IF bet_reads_flags(game_id, account_id)
    THEN [f : BetFlags, overflow_checks : BOOLEAN]
    ELSE {[f |-> NoBet, overflow_checks |-> TRUE]}

\* deal reads its vectors only after the phase and player checks (lib.rs 670-674)
deal_reads_tokens(game_id, account_id) ==
    /\ on_state(game_id)
    /\ games[game_id].state.phase = "DEAL"
    /\ is_player(games[game_id].state, account_id)

\* reveal reads its vectors only after the player, already-revealed and phase
\* checks (lib.rs 835-854)
reveal_reads_tokens(game_id, account_id) ==
    /\ on_state(game_id)
    /\ is_player(games[game_id].state, account_id)
    /\ ~games[game_id].state.revealed_players[player_index(games[game_id].state, account_id)]
    /\ games[game_id].state.phase \in RevealPhases

NoShowdown == [scores |-> [i \in {0} |-> 1], crypto_ok |-> TRUE, overflow_checks |-> TRUE]

\* what a caller of deal passes; one representative where the call panics
\* before reading it
DealInputs(game_id, account_id) ==
    IF deal_reads_tokens(game_id, account_id)
    THEN [card_indices : CardIndexInputs(seats_of(game_id), phase_of(game_id),
                                         seat_of(game_id, account_id)),
          tk : TokenInputs]
    ELSE {[card_indices |-> <<>>, tk |-> [token |-> 1, bad |-> 0]]}

\* reveal runs the showdown only in SHOWDOWN_REVEAL when the caller's is the
\* last flag not set (lib.rs 878-893)
reveal_reads_showdown(game_id, account_id) ==
    /\ reveal_reads_tokens(game_id, account_id)
    /\ games[game_id].state.phase = "SHOWDOWN_REVEAL"
    /\ \A i \in Seats(games[game_id].state) :
          \/ i = player_index(games[game_id].state, account_id)
          \/ games[game_id].state.revealed_players[i]

\* what a caller of reveal passes, and what the collaborators answer; one
\* representative of what the call does not read: the showdown runs only when
\* the vectors have the phase's length and every token verifies
RevealInputs(game_id, account_id) ==
    IF reveal_reads_tokens(game_id, account_id)
    THEN LET passed == [card_indices : CardIndexInputs(seats_of(game_id), phase_of(game_id),
                                                       seat_of(game_id, account_id)),
                        tk : TokenInputs]
             stored(x) == /\ x.tk.bad = 0
                          /\ Len(x.card_indices) = reveal_num_cards(phase_of(game_id))
         IN  {[card_indices |-> x.card_indices, tk |-> x.tk, sd |-> sd] :
                 x \in {y \in passed : stored(y)},
                 sd \in IF reveal_reads_showdown(game_id, account_id)
                        THEN ShowdownInputs(seats_of(game_id)) ELSE {NoShowdown}}
             \cup {[card_indices |-> x.card_indices, tk |-> x.tk, sd |-> NoShowdown] :
                     x \in {y \in passed : ~stored(y)}}
    ELSE {[card_indices |-> <<>>, tk |-> [token |-> 1, bad |-> 0], sd |-> NoShowdown]}

\* ------------------------------------------------- the contract as deployed
Init ==
    /\ games = [id \in GameIds |-> Absent]
    /\ now = 0
    /\ last = Returned("init", None, None, TRUE)

Next ==
    \/ Tick
    \/ \E a \in Accounts, proof_ok \in BOOLEAN, id \in GameIds :
          create_game(a, PubKey(a), proof_ok, id)
    \/ \E id \in GameIds, a \in Accounts, proof_ok \in BOOLEAN :
          join_game(id, a, PubKey(a), proof_ok)
    \/ \E id \in GameIds, a \in Accounts : start_game(id, a)
    \/ \E id \in GameIds, a \in Accounts, deck_len \in {0, DeckSize, DeckSize + 1} :
          init_deck(id, a, deck_len)
    \/ \E id \in GameIds, a \in Accounts, proof_ok \in BOOLEAN :
          shuffle_deck(id, a, proof_ok)
    \/ \E id \in GameIds, a \in Accounts : \E d \in DealInputs(id, a) :
          deal(id, a, d.card_indices, d.tk.token, d.tk.bad)
    \/ \E id \in GameIds, a \in Accounts : blind(id, a)
    \/ \E id \in GameIds, a \in Accounts : \E b \in BetInputs(id, a) :
          bet(id, a, b.f, b.overflow_checks)
    \/ \E id \in GameIds, a \in Accounts : \E r \in RevealInputs(id, a) :
          reveal(id, a, r.card_indices, r.tk.token, r.tk.bad,
                 r.sd.scores, r.sd.crypto_ok, r.sd.overflow_checks)

Spec == Init /\ [][Next]_vars

\* ------------------------------------- one game, each call seeing the last
\* The reading under which the rules of play are stated: the record a
\* successful call leaves is the record the next call on that game reads.  A
\* panicking call leaves nothing behind, so only successful calls are steps.
InSequence(op, game_id, account_id, r) ==
    /\ r.ok
    /\ games' = [games EXCEPT ![game_id] = InProgress(r.st)]
    /\ last' = Returned(op, game_id, account_id, TRUE)
    /\ UNCHANGED now

init_deck_seq(game_id, account_id, deck_len) ==
    InSequence("init_deck", game_id, account_id,
               init_deck_result(game_id, account_id, deck_len))

shuffle_deck_seq(game_id, account_id, proof_ok) ==
    InSequence("shuffle_deck", game_id, account_id,
               shuffle_deck_result(game_id, account_id, proof_ok))

deal_seq(game_id, account_id, card_indices, token, bad) ==
    InSequence("deal", game_id, account_id,
               deal_result(game_id, account_id, card_indices, token, bad))

blind_seq(game_id, account_id) ==
    InSequence("blind", game_id, account_id, blind_result(game_id, account_id))

\* what a bet call returns, with the request it carried out (none on an error)
BetReturned(game_id, account_id, f, ok) ==
    [op |-> "bet", id |-> game_id, caller |-> account_id, ok |-> ok,
     f |-> IF ok THEN f ELSE NoBet]

\* a successful bet call with outcome r, in sequence
bet_in_sequence(game_id, account_id, f, r) ==
    /\ r.ok
    /\ games' = [games EXCEPT ![game_id] = InProgress(r.st)]
    /\ last' = BetReturned(game_id, account_id, f, TRUE)
    /\ UNCHANGED now

bet_seq(game_id, account_id, f, overflow_checks) ==
    bet_in_sequence(game_id, account_id, f,
                    bet_result(game_id, account_id, f, overflow_checks))

reveal_seq(game_id, account_id, card_indices, token, bad, scores, crypto_ok, overflow_checks) ==
    InSequence("reveal", game_id, account_id,
               reveal_result(game_id, account_id, card_indices, token, bad,
                             scores, crypto_ok, overflow_checks))

\* the stack every seat holds when play starts; GameState::new gives 0, and no
\* entry point adds chips
StartBalances == {0, MaxBalance \div 2, MaxBalance}

\* the record start_game stores for seats 1..n, each holding `stack`
started_game(n, stack) ==
    [GameState_new(1, [i \in 0..(n - 1) |-> i + 1], [i \in 0..(n - 1) |-> PubKey(i + 1)], 0)
        EXCEPT !.balances = [i \in 0..(n - 1) |-> stack]]

InitSeq ==
    /\ \E n \in 1..MaxPlayers, stack \in StartBalances :
          games = [id \in GameIds |->
                      IF id = 1 THEN InProgress(started_game(n, stack)) ELSE Absent]
    /\ now = 0
    /\ last = Returned("start_game", 1, 1, TRUE)

NextSeq ==
    \/ \E id \in GameIds, a \in Accounts, deck_len \in {0, DeckSize, DeckSize + 1} :
          init_deck_seq(id, a, deck_len)
    \/ \E id \in GameIds, a \in Accounts, proof_ok \in BOOLEAN :
          shuffle_deck_seq(id, a, proof_ok)
    \/ \E id \in GameIds, a \in Accounts : \E d \in DealInputs(id, a) :
          deal_seq(id, a, d.card_indices, d.tk.token, d.tk.bad)
    \/ \E id \in GameIds, a \in Accounts : blind_seq(id, a)
    \/ \E id \in GameIds, a \in Accounts : \E b \in BetInputs(id, a) :
          bet_seq(id, a, b.f, b.overflow_checks)
    \/ \E id \in GameIds, a \in Accounts : \E r \in RevealInputs(id, a) :
          reveal_seq(id, a, r.card_indices, r.tk.token, r.tk.bad,
                 r.sd.scores, r.sd.crypto_ok, r.sd.overflow_checks)

SpecSeq == InitSeq /\ [][NextSeq]_vars

\* ------------------------------------------- play with unequal stacks
\* The sequence of calls again, from a started game whose seats hold different
\* stacks: the dealer holds one stack and the other seats another.
started_with_stacks(n, dealer_stack, stack) ==
    [GameState_new(1, [i \in 0..(n - 1) |-> i + 1], [i \in 0..(n - 1) |-> PubKey(i + 1)], 0)
        EXCEPT !.balances = [i \in 0..(n - 1) |-> IF i = 0 THEN dealer_stack ELSE stack]]

InitStacks ==
    /\ \E n \in 1..MaxPlayers, dealer_stack \in StartBalances, stack \in StartBalances :
          games = [id \in GameIds |->
                      IF id = 1 THEN InProgress(started_with_stacks(n, dealer_stack, stack))
                      ELSE Absent]
    /\ now = 0
    /\ last = Returned("start_game", 1, 1, TRUE)

SpecStacks == InitStacks /\ [][NextSeq]_vars

\* ------------------------------------------ play as start_game starts it
\* The sequence of calls from the record start_game stores: GameState::new for
\* the seats of the lobby, untouched.
InitStarted ==
    /\ \E n \in 1..MaxPlayers :
          games = [id \in GameIds |->
                      IF id = 1
                      THEN InProgress(GameState_new(1, [i \in 0..(n - 1) |-> i + 1],
                                                    [i \in 0..(n - 1) |-> PubKey(i + 1)], 0))
                      ELSE Absent]
    /\ now = 0
    /\ last = Returned("start_game", 1, 1, TRUE)

SpecStarted == InitStarted /\ [][NextSeq]_vars

\* --------------------------------------------- the last steps of a round
\* No sequence of calls from start_game fills the token matrix a showdown needs
\* (deal leaves every flag set, and reveal stores at most seven tokens per
\* seat), so the end of a round is examined from drawn records: a game in BET3
\* or SHOWDOWN_REVEAL with arbitrary balances and stakes, the tokens of the
\* earlier steps stored, at most one slot missing.  A call that panics is a
\* step too: it returns an error and leaves the record as it was.
Call(op, game_id, account_id, r) ==
    /\ games' = IF r.ok THEN [games EXCEPT ![game_id] = InProgress(r.st)] ELSE games
    /\ last' = Returned(op, game_id, account_id, r.ok)
    /\ UNCHANGED now

\* a bet call with outcome r
bet_outcome(game_id, account_id, f, r) ==
    /\ games' = IF r.ok THEN [games EXCEPT ![game_id] = InProgress(r.st)] ELSE games
    /\ last' = BetReturned(game_id, account_id, f, r.ok)
    /\ UNCHANGED now

bet_call(game_id, account_id, f, overflow_checks) ==
    bet_outcome(game_id, account_id, f, bet_result(game_id, account_id, f, overflow_checks))

\* the slots of the token matrix of s that hold a token
slots_set(s) == DOMAIN s.reveal_tokens_with_proofs

\* what a reveal call with outcome r returns, with the scores the evaluator gave
\* when the call ran the showdown, and the number of tokens a failing call had
\* stored in its copy of the record when it panicked
RevealReturned(game_id, account_id, scores, r) ==
    [op |-> "reveal", id |-> game_id, caller |-> account_id, ok |-> r.ok,
     scores |-> IF r.ok /\ reveal_reads_showdown(game_id, account_id)
                THEN scores ELSE NoShowdown.scores,
     stored |-> IF ~r.ok /\ on_state(game_id)
                THEN Cardinality(slots_set(r.st) \ slots_set(games[game_id].state))
                ELSE 0]

\* reveal_outcome with the copy of a panicking call written back
reveal_outcome_keeping_copy(game_id, account_id, scores, r) ==
    /\ games' = [games EXCEPT ![game_id] = InProgress(r.st)]
    /\ last' = RevealReturned(game_id, account_id, scores, r)
    /\ UNCHANGED now

\* a reveal call with outcome r: a panic discards the copy the call worked on
reveal_outcome(game_id, account_id, scores, r) ==
    /\ games' = IF r.ok THEN [games EXCEPT ![game_id] = InProgress(r.st)] ELSE games
    /\ last' = RevealReturned(game_id, account_id, scores, r)
    /\ UNCHANGED now

reveal_call(game_id, account_id, card_indices, token, bad, scores, crypto_ok, overflow_checks) ==
    reveal_outcome(game_id, account_id, scores,
                   reveal_result(game_id, account_id, card_indices, token, bad,
                                 scores, crypto_ok, overflow_checks))

\* the ante of a drawn record
DrawnAnte == MaxBalance \div 2

DrawnBalances == {DrawnAnte, MaxBalance}

\* the stakes a seat can hold late in a round: it called the ante, has not
\* acted since the last raise, is all in, or folded after calling
DrawnStakes == {In(DrawnAnte), In(0), AllIn, Folded(DrawnAnte)}

\* the slots stored before SHOWDOWN_REVEAL: every seat's token for the five
\* community cards and for the other seats' hole cards
stored_before_showdown(n, card_idx, player_idx) ==
    /\ card_idx < 2 * n + 5
    /\ card_idx \notin hole_cards(player_idx)

\* the slots of which a drawn record may lack one: a community card's, or a
\* hole card's held by another seat
NoSlot == <<None, None>>

DrawnMissing(n) ==
    {NoSlot} \cup {<<2 * n, p>> : p \in 0..(n - 1)}
           \cup {<<2 * q, p>> : q \in 0..(n - 1), p \in 0..(n - 1)}

drawn_tokens(n, missing) ==
    [x \in {y \in (0..(2 * n + 4)) \X (0..(n - 1)) :
                stored_before_showdown(n, y[1], y[2]) /\ y # missing} |-> 1]

drawn_game(n, phase, dealer, turn, balances, bets, missing) ==
    [GameState_new(1, [i \in 0..(n - 1) |-> i + 1], [i \in 0..(n - 1) |-> PubKey(i + 1)], 0)
        EXCEPT !.phase = phase, !.dealer = dealer, !.turn = turn, !.ante = DrawnAnte,
               !.balances = balances, !.bets = bets, !.deck = DeckSize,
               !.reveal_tokens_with_proofs = drawn_tokens(n, missing)]

\* turn is the first seat from the dealer that has not folded, where the last
\* reveal of RIVER leaves it (lib.rs 894-898); stakes with the tokens complete
\* are arbitrary; a record lacking a slot is
\* drawn in SHOWDOWN_REVEAL with every seat holding MaxBalance and having
\* called or folded
InitDrawn ==
    /\ \E n \in 2..MaxPlayers, phase \in {"BET3", "SHOWDOWN_REVEAL"} :
       \E dealer \in {0}, turn \in 0..(n - 1),
          balances \in [0..(n - 1) -> DrawnBalances],
          bets \in [0..(n - 1) -> DrawnStakes],
          missing \in DrawnMissing(n) :
          /\ Cardinality({i \in 0..(n - 1) : bets[i].tag # "Folded"}) >= 2
          /\ bets[turn].tag # "Folded"
          /\ \A i \in dealer..(turn - 1) : bets[i].tag = "Folded"
          /\ phase = "BET3" => missing = NoSlot
          /\ missing # NoSlot =>
                /\ missing[1] \notin hole_cards(missing[2])
                /\ \A i \in 0..(n - 1) :
                      /\ balances[i] = MaxBalance
                      /\ bets[i] \in {In(DrawnAnte), Folded(DrawnAnte)}
          /\ games = [id \in GameIds |->
                        IF id = 1
                        THEN InProgress(drawn_game(n, phase, dealer, turn,
                                                   balances, bets, missing))
                        ELSE Absent]
    /\ now = 0
    /\ last = Returned("drawn", 1, None, TRUE)

NextDrawn ==
    \/ \E id \in GameIds, a \in Accounts : \E b \in BetInputs(id, a) :
          bet_call(id, a, b.f, b.overflow_checks)
    \/ \E id \in GameIds, a \in Accounts : \E r \in RevealInputs(id, a) :
          reveal_call(id, a, r.card_indices, r.tk.token, r.tk.bad,
                      r.sd.scores, r.sd.crypto_ok, r.sd.overflow_checks)

SpecDrawn == InitDrawn /\ [][NextDrawn]_vars

\* ------------------------------------------------- the lobby, in sequence
\* Lobbies as create_game and join_game build them when the lobby a successful
\* join_game leaves is the lobby the next call reads; a call that panics is a
\* step that changes nothing.  Lobbies take up to MaxPlayers + 1 accounts.
join_game_call(game_id, account_id, pk, proof_ok) ==
    /\ games[game_id].kind = "WaitingForPlayers" =>
          Cardinality(DOMAIN games[game_id].lobby.player_account_ids) <= MaxPlayers
    /\ join_game_outcome(game_id, account_id,
                         join_game_result(game_id, account_id, pk, proof_ok))

NextLobby ==
    \/ Tick
    \/ \E a \in Accounts, proof_ok \in BOOLEAN, id \in GameIds :
          create_game(a, PubKey(a), proof_ok, id)
    \/ \E id \in GameIds, a \in Accounts, proof_ok \in BOOLEAN :
          join_game_call(id, a, PubKey(a), proof_ok)

SpecLobby == Init /\ [][NextLobby]_vars

\* ------------------------------------------- next_in_player on its own
\* next_in_player is a function of bets and turn alone: it is applied to every
\* bets vector and turn of up to MaxPlayers seats, and again to the record with
\* turn set to its result, the seats it returned being kept in last.visited.
turns_game(n, turn, bets) ==
    drawn_game(n, "BET0", 0, turn, [i \in 0..(n - 1) |-> MaxBalance], bets, NoSlot)

InitTurns ==
    /\ \E n \in 1..MaxPlayers :
       \E turn \in 0..(n - 1), bets \in [0..(n - 1) -> DrawnStakes] :
          games = [id \in GameIds |->
                      IF id = 1 THEN InProgress(turns_game(n, turn, bets)) ELSE Absent]
    /\ now = 0
    /\ last = [op |-> "drawn", id |-> 1, caller |-> None, ok |-> TRUE, at |-> 0,
               visited |-> <<>>]

\* turn = next_in_player(), as bet does at lib.rs 818 and 822
advance_turn(id) ==
    /\ games[id].kind = "InProgress"
    /\ Len(last.visited) < 2 * MaxPlayers
    /\ LET s == games[id].state
           r == next_in_player(s)
       IN  /\ games' = [games EXCEPT ![id] =
                            InProgress(IF r = None THEN s ELSE [s EXCEPT !.turn = r])]
           /\ last' = [last EXCEPT !.op = "next_in_player", !.ok = (r # None),
                                   !.visited = Append(@, r)]
    /\ UNCHANGED now

NextTurns == \E id \in GameIds : advance_turn(id)

SpecTurns == InitTurns /\ [][NextTurns]_vars

\* ------------------------------------------------------------------ claims

\* the accounts a stored lobby lists
listed(game_id) ==
    IF games[game_id].kind = "WaitingForPlayers"
    THEN {games[game_id].lobby.player_account_ids[i] :
            i \in DOMAIN games[game_id].lobby.player_account_ids}
    ELSE {}

\* C1: every successful state-changing call on an existing game commits the
\* record it modified back to the registry under the same GameId; in
\* particular, right after a successful join_game the stored lobby lists the
\* caller.
C1_JoinCommitted ==
    (last.op = "join_game" /\ last.ok) => last.caller \in listed(last.id)

\* the phase of a game in progress, None otherwise
phase_in(g) == IF g.kind = "InProgress" THEN g.state.phase ELSE None

\* the graph of phases (Phase, lib.rs 440-453, in declaration order, then back to the top)
PhaseGraph ==
    {<<"SHUFFLE", "DEAL">>, <<"DEAL", "BLIND">>, <<"BLIND", "BET0">>,
     <<"BET0", "FLOP">>, <<"FLOP", "BET1">>, <<"BET1", "TURN">>,
     <<"TURN", "BET2">>, <<"BET2", "RIVER">>, <<"RIVER", "BET3">>,
     <<"BET3", "SHOWDOWN_REVEAL">>, <<"SHOWDOWN_REVEAL", "SHOWDOWN">>,
     <<"SHOWDOWN", "SHUFFLE">>}

\* the short-circuit of a betting phase when all but one seat has folded
FoldGraph == {<<p, "SHUFFLE">> : p \in BetPhases}

\* C2: phase monotonicity: each call seeing the record the last one left,
\* every change of phase made by a call is an edge of the phase graph or the
\* short-circuit from a betting phase to SHUFFLE.
C2_PhaseMonotone ==
    [][\A id \in GameIds :
          (/\ games[id].kind = "InProgress"
           /\ games'[id].kind = "InProgress"
           /\ phase_in(games'[id]) # phase_in(games[id]))
          => <<phase_in(games[id]), phase_in(games'[id])>> \in PhaseGraph \cup FoldGraph]_vars

\* the chips of seats 0..k-1, as the sum of the residues
RECURSIVE chips_below(_, _)
chips_below(s, k) == IF k = 0 THEN 0 ELSE chips_below(s, k - 1) + s.balances[k - 1]

\* the sum of all seats' balances: `low` plus 2^128 for each balance held as a
\* negative residue
sum_balances(s) ==
    [low |-> chips_below(s, num_players(s)),
     high |-> Cardinality({i \in Seats(s) : s.balances[i] < 0})]

\* C3: chip conservation: from arbitrary starting balances, every bet, reveal
\* (showdown included) and pot transfer leaves the sum of all seats' balances
\* as it was before the step.
C3_ChipConservation ==
    [][\A id \in GameIds :
          (games[id].kind = "InProgress" /\ games'[id].kind = "InProgress")
          => sum_balances(games'[id].state) = sum_balances(games[id].state)]_vars

\* a pot has been transferred: a seat holds more than any seat started with
C3_PotTransferred ==
    \E id \in GameIds :
        /\ games[id].kind = "InProgress"
        /\ last.op \in {"bet", "reveal"} /\ last.ok
        /\ games[id].state.phase = "SHUFFLE"
        /\ \E i \in Seats(games[id].state) : games[id].state.balances[i] > MaxBalance

\* the first seat after `seat` in cyclic order that has not folded
first_in_after(s, seat) ==
    LET n == num_players(s)
        d == CHOOSE k \in 1..n :
                /\ ~player_is_folded(s, (seat + k) % n)
                /\ \A j \in 1..(k - 1) : player_is_folded(s, (seat + j) % n)
    IN  (seat + d) % n

\* C4: after a bet that leaves at least two seats not folded and does not end
\* the betting sub-round, turn is the first seat after the acting seat, in
\* cyclic order, that has not folded: it has advanced exactly once.
C4_TurnAdvancesOnce ==
    [][\A id \in GameIds :
          (/\ last'.op = "bet" /\ last'.ok /\ last'.id = id
           /\ games[id].kind = "InProgress"
           /\ games'[id].state.phase = games[id].state.phase
           /\ num_players_in(games'[id].state) >= 2)
          => games'[id].state.turn = first_in_after(games'[id].state, games[id].state.turn)]_vars

\* C5: in every round, after a showdown or after all but one seat folded
\* alike, SHUFFLE -> DEAL happens only after each of the N seats has made
\* exactly one successful shuffle_deck in that round, in cyclic seat order
\* beginning with the dealer.  shuffle_deck admits only the seat at turn, so
\* the round's shuffles run dealer, dealer+1, ... exactly when (a) the round
\* enters SHUFFLE with turn at the dealer and (b) while in SHUFFLE turn moves
\* only one seat on with each successful shuffle_deck (or back to the dealer
\* when init_deck begins the round anew), DEAL following the shuffle that
\* brings turn back to the dealer.
C5_ShufflesFromDealer ==
    [][\A id \in GameIds :
          (games[id].kind = "InProgress" /\ games'[id].kind = "InProgress") =>
          LET s == games[id].state
              s1 == games'[id].state
          IN  /\ (s.phase # "SHUFFLE" /\ s1.phase = "SHUFFLE") => s1.turn = s1.dealer
              /\ (/\ s.phase = "SHUFFLE"
                  /\ last'.op # "init_deck"
                  /\ s1.turn # s.turn \/ s1.phase # s.phase)
                 => /\ last'.op = "shuffle_deck"
                    /\ s1.dealer = s.dealer
                    /\ s1.turn = (s.turn + 1) % num_players(s)
                    /\ s1.phase = IF s1.turn = s.dealer THEN "DEAL" ELSE "SHUFFLE"
              /\ (s.phase = "SHUFFLE" /\ last'.op = "init_deck") => s1.turn = s1.dealer]_vars

\* C6: in BLIND with N >= 3 seats, the seat at turn calling blind: seat
\* dealer+1 posts the little blind (5) and the turn passes to seat dealer+2,
\* which posts the big blind (10, making ante 10), so that the game goes on to
\* BET0 instead of staying in BLIND.  As steps: a successful blind by seat
\* dealer+1 stakes the little blind and leaves turn at dealer+2, and one by
\* seat dealer+2 stakes the big blind with ante 10.
C6_BlindsProgress ==
    [][\A id \in GameIds :
          (/\ last'.op = "blind" /\ last'.ok /\ last'.id = id
           /\ games[id].kind = "InProgress"
           /\ num_players(games[id].state) >= 3) =>
          LET s == games[id].state
              s1 == games'[id].state
              n == num_players(s)
          IN  /\ (s.turn = (s.dealer + 1) % n /\ s.balances[s.turn] >= LITTLE_BLIND_AMOUNT)
                 => /\ s1.bets[s.turn] = In(LITTLE_BLIND_AMOUNT)
                    /\ s1.turn = (s.dealer + 2) % n
              /\ (s.turn = (s.dealer + 2) % n /\ s.balances[s.turn] >= BIG_BLIND_AMOUNT)
                 => /\ s1.bets[s.turn] = In(BIG_BLIND_AMOUNT)
                    /\ s1.ante = BIG_BLIND_AMOUNT]_vars

\* seat i holds a posted blind: its stake is no longer the In(0) every round
\* starts with (reset_bets)
blind_posted(s, i) == s.bets[i] # In(0)

\* C7: for every number of seats, N = 2 included, BLIND -> BET0 fires only
\* after both the little and the big blind have been posted in the current
\* round, by two successful blind calls of two different seats (stated for
\* the games that have two seats to post them).
C7_BothBlindsPosted ==
    [][\A id \in GameIds :
          (/\ games[id].kind = "InProgress" /\ games'[id].kind = "InProgress"
           /\ num_players(games[id].state) >= 2
           /\ games[id].state.phase = "BLIND"
           /\ games'[id].state.phase = "BET0")
          => \E i, j \in Seats(games'[id].state) :
                /\ i # j
                /\ blind_posted(games'[id].state, i)
                /\ blind_posted(games'[id].state, j)]_vars

\* C8: a second deal by the same seat within one DEAL step, and a second
\* reveal by the same seat within one FLOP, TURN, RIVER or SHOWDOWN_REVEAL
\* step, fails because the seat's revealed_players flag is already set, and so
\* stores no token.  The second call here is the one that directly follows
\* the seat's first, the phase still being that of the step.
C8_SecondCallFails ==
    [][\A id \in GameIds :
          (/\ games[id].kind = "InProgress"
           /\ last.id = id /\ last.ok /\ last.op \in {"deal", "reveal"}
           /\ games[id].state.phase \in {"DEAL"} \cup RevealPhases)
          => ~(last'.ok /\ last'.id = id /\ last'.op = last.op /\ last'.caller = last.caller)]_vars

\* C9: in FLOP, TURN and RIVER the phase advances to the next betting phase
\* as soon as every seat that has not folded has supplied its owed tokens:
\* the reveal of the last such seat advances the phase, whether or not the
\* seats that folded earlier in the round have revealed.
C9_AdvanceWithoutFolded ==
    [][\A id \in GameIds :
          (/\ last'.op = "reveal" /\ last'.ok /\ last'.id = id
           /\ games[id].kind = "InProgress"
           /\ games[id].state.phase \in {"FLOP", "TURN", "RIVER"}
           /\ \A i \in Seats(games[id].state) :
                 \/ player_is_folded(games[id].state, i)
                 \/ i = player_index(games[id].state, last'.caller)
                 \/ games[id].state.revealed_players[i])
          => games'[id].state.phase = after_reveal_phase(games[id].state.phase)]_vars

\* the cards a showdown unmasks: the five community cards and the hole cards of
\* the seats that have not folded
showdown_cards(s) ==
    community_cards(s) \cup UNION {hole_cards(p) : p \in {q \in Seats(s) : ~player_is_folded(s, q)}}

\* a slot a showdown needs is empty in s and is not one that seat `player`
\* supplies by revealing its own hole cards
slot_lacking(s, player) ==
    \E c \in showdown_cards(s), p \in Seats(s) :
        /\ token_at(s, c, p) = None
        /\ ~(p = player /\ c \in hole_cards(player))

\* the reveal of seat `player` is the one that runs the showdown
last_to_reveal(s, player) ==
    /\ s.phase = "SHOWDOWN_REVEAL"
    /\ ~s.revealed_players[player]
    /\ \A i \in Seats(s) \ {player} : s.revealed_players[i]

stake(s, i) == IF s.bets[i].tag = "AllIn" THEN s.balances[i] ELSE s.bets[i].amt

\* the stakes of seats 0..k-1 other than `winner`
RECURSIVE stakes_below(_, _, _)
stakes_below(s, winner, k) ==
    IF k = 0 THEN 0
    ELSE stakes_below(s, winner, k - 1) + (IF k - 1 = winner THEN 0 ELSE stake(s, k - 1))

\* a successful bet on game id in which the seat at turn folds
folds(id) ==
    /\ last'.op = "bet" /\ last'.ok /\ last'.id = id
    /\ games[id].kind = "InProgress"
    /\ last'.f.fold

\* C11: fold-win settlement: after a bet that leaves exactly one seat not
\* folded, that seat's balance has grown by the sum of every other seat's
\* stake, each other seat's balance has shrunk by its own stake, phase is
\* SHUFFLE, every bet is In(0) and every check and revealed_players flag is
\* false.
C11_FoldWinSettlement ==
    [][\A id \in GameIds :
          (folds(id) /\ num_players_in(games[id].state) = 2) =>
          LET s == games[id].state
              s1 == games'[id].state
              winner == CHOOSE w \in Seats(s) : ~player_is_folded(s, w) /\ w # s.turn
          IN  /\ s1.balances[winner] =
                    s.balances[winner] + stakes_below(s, winner, num_players(s))
              /\ \A i \in Seats(s) \ {winner} : s1.balances[i] = s.balances[i] - stake(s, i)
              /\ s1.phase = "SHUFFLE"
              /\ \A i \in Seats(s) :
                    /\ s1.bets[i] = In(0)
                    /\ ~s1.checks[i]
                    /\ ~s1.revealed_players[i]]_vars

\* the last seat but one has folded and the seat left has been paid
C11_FoldWon ==
    \E id \in GameIds :
        /\ games[id].kind = "InProgress"
        /\ last.op = "bet" /\ last.ok /\ last.f.fold
        /\ games[id].state.phase = "SHUFFLE"
        /\ \E i, j \in Seats(games[id].state) :
              /\ games[id].state.balances[i] > MaxBalance
              /\ games[id].state.balances[j] < DrawnAnte

\* the seats not folded once the seat at turn has carried out request f
in_after(s, f) ==
    {i \in Seats(s) : ~player_is_folded(s, i)} \ (IF f.fold THEN {s.turn} ELSE {})

\* the seats whose check flag is set once the seat at turn has carried out
\* request f: a check sets its own, a fold clears its own, any other request
\* clears them all
checked_after(s, f) ==
    IF f.check THEN {i \in Seats(s) : s.checks[i]} \cup {s.turn}
    ELSE IF f.fold THEN {i \in Seats(s) : s.checks[i]} \ {s.turn}
    ELSE {}

\* C12: a betting phase advances to its successor (BET0 -> FLOP, BET1 -> TURN,
\* BET2 -> RIVER, BET3 -> SHOWDOWN_REVEAL) exactly when, after the action, at
\* least two seats have not folded and every one of them has its check flag
\* set; all check flags are then false.  A call or raise by the last seat to
\* act therefore does not end the sub-round.
C12_SubRoundEnds ==
    [][\A id \in GameIds :
          (/\ last'.op = "bet" /\ last'.ok /\ last'.id = id
           /\ games[id].kind = "InProgress") =>
          LET s == games[id].state
              s1 == games'[id].state
              ends == /\ Cardinality(in_after(s, last'.f)) >= 2
                      /\ in_after(s, last'.f) \subseteq checked_after(s, last'.f)
          IN  /\ (s1.phase = after_bet_phase(s.phase)) <=> ends
              /\ ends => \A i \in Seats(s1) : ~s1.checks[i]
              /\ (last'.f.call \/ last'.f.raise # None) => s1.phase # after_bet_phase(s.phase)]_vars

\* a betting sub-round has ended on the last check
C12_SubRoundEnded ==
    \E id \in GameIds :
        /\ games[id].kind = "InProgress"
        /\ last.op = "bet" /\ last.ok /\ last.f.check
        /\ games[id].state.phase \in {"FLOP", "TURN", "RIVER", "SHOWDOWN_REVEAL"}
        /\ num_players_in(games[id].state) >= 2

\* the phases in which each action is meant to be accepted
own_phases(op) ==
    CASE op = "shuffle_deck" -> {"SHUFFLE"}
      [] op = "deal" -> {"DEAL"}
      [] op = "blind" -> {"BLIND"}
      [] op = "bet" -> BetPhases
      [] op = "reveal" -> RevealPhases
      [] OTHER -> {}

\* C13: shuffle_deck, deal, blind, bet and reveal are each accepted only in
\* their own phase (SHUFFLE; DEAL; BLIND; BET0..BET3; FLOP, TURN, RIVER or
\* SHOWDOWN_REVEAL): a call that succeeds found the game in one of them.
C13_OwnPhaseOnly ==
    [][\A id \in GameIds :
          (/\ last'.op \in {"shuffle_deck", "deal", "blind", "bet", "reveal"}
           /\ last'.ok /\ last'.id = id
           /\ games[id].kind = "InProgress")
          => games[id].state.phase \in own_phases(last'.op)]_vars

\* the seats that have not folded
in_seats(s) == {i \in Seats(s) : ~player_is_folded(s, i)}

\* the non-folded seats holding the greatest score
best_seats(s, scores) ==
    {i \in in_seats(s) : \A j \in in_seats(s) : scores[j] <= scores[i]}

first_of(S) == CHOOSE i \in S : \A j \in S : i <= j

last_of(S) == CHOOSE i \in S : \A j \in S : j <= i

\* seat w has been paid every other seat's stake, from s to s1
pot_went_to(s, s1, w) ==
    \A i \in Seats(s) :
        s1.balances[i] = IF i = w THEN s.balances[i] + stakes_below(s, w, num_players(s))
                         ELSE s.balances[i] - stake(s, i)

\* the step is the reveal that ran the showdown of game id
showdown_step(id) ==
    /\ last'.op = "reveal" /\ last'.ok /\ last'.id = id
    /\ games[id].kind = "InProgress"
    /\ games[id].state.phase = "SHOWDOWN_REVEAL"
    /\ games'[id].state.phase = "SHUFFLE"

settled_by_showdown(s, s1, scores) ==
    /\ s1.phase = "SHUFFLE"
    /\ s1.dealer = (s.dealer + 1) % num_players(s)
    /\ s1.turn = s1.dealer
    /\ s1.ante = 0
    /\ \A i \in Seats(s) :
          /\ s1.bets[i] = In(0)
          /\ ~s1.checks[i]
          /\ ~s1.revealed_players[i]
    /\ \A c \in Cards, p \in Seats(s) : token_at(s1, c, p) = None
    /\ pot_went_to(s, s1, last_of(best_seats(s, scores)))

\* C15: when the last required reveal of SHOWDOWN_REVEAL succeeds (the reveal
\* of the last seat among those that have not folded), in the resulting state
\* the showdown winner has received the pot, phase is SHUFFLE, dealer is
\* (previous dealer + 1) mod N, turn equals the new dealer, every bet is In(0),
\* ante is 0, and all check flags, revealed_players flags and reveal-token
\* slots are cleared.
C15_ShowdownSettles ==
    [][\A id \in GameIds :
          (/\ last'.op = "reveal" /\ last'.ok /\ last'.id = id
           /\ games[id].kind = "InProgress"
           /\ games[id].state.phase = "SHOWDOWN_REVEAL"
           /\ ~player_is_folded(games[id].state, player_index(games[id].state, last'.caller))
           /\ \A i \in Seats(games[id].state) :
                 \/ player_is_folded(games[id].state, i)
                 \/ i = player_index(games[id].state, last'.caller)
                 \/ games[id].state.revealed_players[i])
          => settled_by_showdown(games[id].state, games'[id].state, last'.scores)]_vars

\* the entry points that act on a started game
GameActions == {"start_game", "init_deck", "shuffle_deck", "deal", "blind", "bet", "reveal"}

\* C16: create_game never replaces a live registry entry: the identifier it
\* returns is absent from the registry, or held by a lobby created more than
\* 20 minutes ago, or held by a game in progress whose most recent successful
\* action (the call before this one, when that was a successful action on the
\* game) is more than 60 minutes old.
C16_OnlyStaleReplaced ==
    [][\A id \in GameIds :
          (now' = now /\ last'.op = "create_game" /\ last'.ok /\ last'.id = id) =>
          \/ games[id].kind = "Absent"
          \/ /\ games[id].kind = "WaitingForPlayers"
             /\ (now - games[id].lobby.created_at) * TimeUnit > 20 * 60 * 1000
          \/ /\ games[id].kind = "InProgress"
             /\ (now - games[id].state.last_modified) * TimeUnit > 60 * 60 * 1000
             /\ (last.op \in GameActions /\ last.ok /\ last.id = id)
                    => (now - last.at) * TimeUnit > 60 * 60 * 1000]_vars

\* C17: a failing call (failed authorization, wrong phase, wrong turn,
\* duplicate, invalid flags, failed proof verification, a reveal whose second
\* or third token fails verification after an earlier token of the same call
\* was accepted) leaves the whole registry exactly as it was before the call.
C17_FailureLeavesRegistry ==
    [][(now' = now /\ ~last'.ok) => games' = games]_vars

\* a reveal has failed on a later token after storing an earlier one
C17_FailedAfterStoring ==
    \E id \in GameIds :
        /\ games[id].kind = "InProgress"
        /\ last.op = "reveal" /\ ~last.ok /\ last.id = id
        /\ last.stored >= 1
        /\ games[id].state.phase = "SHOWDOWN_REVEAL"

\* account_id is the seat of s whose turn it is
at_turn(s, account_id) ==
    is_player(s, account_id) /\ player_index(s, account_id) = s.turn

\* outcome r is a failure that leaves the record of game id as it was
refused(id, r) == ~r.ok /\ r.st = games[id].state

\* C18: shuffle_deck, blind and bet succeed only when the caller is a seat of
\* the game and that seat's index equals turn: whatever the phase and whatever
\* it passes, a call by any other account or seat fails and changes nothing.
C18_OnlySeatAtTurn ==
    \A id \in GameIds, a \in Accounts :
        (on_state(id) /\ ~at_turn(games[id].state, a)) =>
        /\ \A proof_ok \in BOOLEAN : refused(id, shuffle_deck_result(id, a, proof_ok))
        /\ refused(id, blind_result(id, a))
        /\ \A f \in BetFlags, overflow_checks \in BOOLEAN :
              refused(id, bet_result(id, a, f, overflow_checks))

\* a bet by the seat at turn has succeeded in a game of three seats, the
\* phase still one of betting
C18_BetAtTurn ==
    \E id \in GameIds :
        /\ games[id].kind = "InProgress"
        /\ last.op = "bet" /\ last.ok /\ last.id = id
        /\ num_players(games[id].state) = 3
        /\ games[id].state.phase \in BetPhases

\* C19: a bet call succeeds only if exactly one of call, check, all-in, fold,
\* raise(amount) is requested: whoever calls and in whatever phase, a call
\* requesting none of them or two or more of them fails and leaves bets,
\* checks, ante, turn and phase (the whole record) unchanged.
C19_ExactlyOneRequest ==
    \A id \in GameIds, a \in Accounts, f \in AllBetFlags, overflow_checks \in BOOLEAN :
        (on_state(id) /\ requested(f) # 1) =>
        refused(id, bet_result(id, a, f, overflow_checks))

\* a raise has succeeded and the betting goes on
C19_RaiseTaken ==
    \E id \in GameIds :
        /\ games[id].kind = "InProgress"
        /\ last.op = "bet" /\ last.ok /\ last.id = id
        /\ last.f.raise # None
        /\ games[id].state.phase \in BetPhases

\* C20: create_game with a key-ownership proof that does not verify for the
\* caller's identity fails without an identifier and stores no lobby: the
\* registry is unchanged.
C20_UnprovenCreateRefused ==
    [][(now' = now /\ last'.op = "create_game" /\ ~last'.proof_ok) =>
          /\ ~last'.ok
          /\ last'.id = None
          /\ games' = games]_vars

\* a create_game with a bad proof has been refused while an identifier was free
C20_RefusedWithFreeId ==
    /\ last.op = "create_game" /\ ~last.proof_ok /\ ~last.ok
    /\ \E digits \in GameIds : free_game_id(digits)

\* C21: start_game succeeds only when the record is still a lobby and the
\* caller is its creator (index 0); the stored record is then a game in
\* progress with the lobby's seats and keys in the same order, phase SHUFFLE,
\* turn 0 and dealer 0; and as long as that game is the record stored, every
\* join_game or start_game on its identifier fails and changes nothing.
C21_StartGameOnce ==
    [][\A id \in GameIds :
          (now' = now /\ last'.id = id) =>
          /\ (last'.op = "start_game" /\ last'.ok) =>
                /\ games[id].kind = "WaitingForPlayers"
                /\ games[id].lobby.player_account_ids[0] = last'.caller
                /\ games'[id].kind = "InProgress"
                /\ games'[id].state.player_account_ids = games[id].lobby.player_account_ids
                /\ games'[id].state.player_game_pubkeys = games[id].lobby.player_game_pubkeys
                /\ games'[id].state.phase = "SHUFFLE"
                /\ games'[id].state.turn = 0
                /\ games'[id].state.dealer = 0
          /\ (last'.op \in {"join_game", "start_game"} /\ games[id].kind = "InProgress") =>
                (~last'.ok /\ games' = games)]_vars

\* the creator's second start_game on a game in progress has been refused
C21_SecondStartRefused ==
    \E id \in GameIds :
        /\ games[id].kind = "InProgress"
        /\ last.op = "start_game" /\ ~last.ok /\ last.id = id
        /\ last.caller = games[id].state.player_account_ids[0]

\* C22: init_deck succeeds only when the caller is the creator (seat 0), the
\* game's deck is still empty and the deck supplied has exactly 52 cards; on
\* success the deck is set, every reveal-token slot is empty, and phase and
\* dealer are unchanged.  A deck once set stays set, so every later init_deck
\* on that game fails.
C22_InitDeckOnce ==
    [][\A id \in GameIds :
          (games[id].kind = "InProgress" /\ games'[id].kind = "InProgress") =>
          LET s == games[id].state
              s1 == games'[id].state
          IN  /\ (last'.op = "init_deck" /\ last'.ok /\ last'.id = id) =>
                    /\ last'.caller = s.player_account_ids[0]
                    /\ s.deck = 0
                    /\ s1.deck = DeckSize
                    /\ \A c \in Cards, p \in Seats(s1) : token_at(s1, c, p) = None
                    /\ s1.phase = s.phase
                    /\ s1.dealer = s.dealer
              /\ s.deck # 0 => s1.deck # 0]_vars

\* the deck has been set in the middle of a round, after tokens were stored
C22_DeckSetMidRound ==
    \E id \in GameIds :
        /\ games[id].kind = "InProgress"
        /\ last.op = "init_deck" /\ last.ok /\ last.id = id
        /\ games[id].state.deck = DeckSize
        /\ games[id].state.phase = "BLIND"

\* the cards seat `player` owes a token for in a step of phase `phase`
owed_cards(n, phase, player) ==
    LET owed == IF phase = "DEAL" THEN deal_indices(n, player)
                ELSE indices_should_reveal(n, phase, player)
    IN  {owed[k] : k \in DOMAIN owed}

\* C23: whenever a deal or reveal call sets its seat's revealed_players flag,
\* that seat's token slot is populated for every card it owes in the step (in
\* DEAL the hole cards of every other seat, in FLOP the cards 2N..2N+2, in TURN
\* 2N+3, in RIVER 2N+4, in SHOWDOWN_REVEAL its own hole cards): a call that
\* supplies no tokens, or tokens for other cards, does not set the flag.
C23_FlagMeansTokens ==
    [][\A id \in GameIds :
          (/\ last'.op \in {"deal", "reveal"} /\ last'.ok /\ last'.id = id
           /\ games[id].kind = "InProgress"
           /\ games'[id].state.phase # "SHUFFLE") =>
          LET s == games[id].state
              player == player_index(s, last'.caller)
          IN  \A c \in owed_cards(num_players(s), s.phase, player) :
                  token_at(games'[id].state, c, player) # None]_vars

\* the phase changes that end a token-collection step
CollectionEnds ==
    {<<"DEAL", "BLIND">>, <<"FLOP", "BET1">>, <<"TURN", "BET2">>, <<"RIVER", "BET3">>}

\* C24: whenever a token-collection step completes and the phase advances
\* (DEAL -> BLIND, FLOP -> BET1, TURN -> BET2, RIVER -> BET3), every
\* revealed_players flag is false in the resulting state.
C24_FlagsClearedOnAdvance ==
    [][\A id \in GameIds :
          (/\ games[id].kind = "InProgress" /\ games'[id].kind = "InProgress"
           /\ <<games[id].state.phase, games'[id].state.phase>> \in CollectionEnds)
          => \A i \in Seats(games'[id].state) : ~games'[id].state.revealed_players[i]]_vars

\* C25: in a round that reached FLOP through SHUFFLE, DEAL, BLIND and BET0,
\* the reveals of the seats that have not folded are accepted and, once the
\* last of those seats has revealed its three flop tokens, the phase is BET1:
\* the game does not stay in FLOP.
C25_FlopNotStuck ==
    [][\A id \in GameIds :
          (/\ games[id].kind = "InProgress"
           /\ games[id].state.phase = "FLOP"
           /\ last'.op = "reveal" /\ last'.ok /\ last'.id = id
           /\ ~player_is_folded(games[id].state, player_index(games[id].state, last'.caller))
           /\ \A i \in Seats(games[id].state) :
                 \/ player_is_folded(games[id].state, i)
                 \/ i = player_index(games[id].state, last'.caller)
                 \/ games[id].state.revealed_players[i])
          => games'[id].state.phase = "BET1"]_vars

\* the seats a sequence holds at positions from..(from + k - 1)
window(seq, from, k) == {seq[j] : j \in from..(from + k - 1)}

\* C26: for every bets vector and turn, next_in_player returns a seat that has
\* not folded whenever there is one (the seat at turn itself when it is the
\* only one) and None only when every seat has folded; setting turn to its
\* result again and again visits every non-folded seat exactly once in each
\* run of as many steps as there are non-folded seats.
C26_NextInPlayer ==
    \A id \in GameIds :
        games[id].kind = "InProgress" =>
        LET s == games[id].state
            r == next_in_player(s)
            k == Cardinality(in_seats(s))
        IN  /\ (r = None) <=> (in_seats(s) = {})
            /\ r # None => r \in in_seats(s)
            /\ in_seats(s) = {s.turn} => r = s.turn
            /\ \A from \in 1..Len(last.visited) :
                  (k > 0 /\ from + k - 1 <= Len(last.visited)) =>
                  window(last.visited, from, k) = in_seats(s)

\* two of three seats have not folded and the turn has gone round them twice
C26_TwiceRound ==
    \E id \in GameIds :
        /\ games[id].kind = "InProgress"
        /\ num_players(games[id].state) = 3
        /\ Cardinality(in_seats(games[id].state)) = 2
        /\ last.op = "next_in_player"
        /\ Len(last.visited) = 4

\* request f of the seat at turn passes the checks of bet in s, and the call
\* then aborts on a next_in_player() that finds no seat (lib.rs 801, 820, 822)
aborts_for_no_seat(s, f, overflow_checks) ==
    LET r1 == bet_action(s, s.turn, f)
        r2 == bet_settle(r1.st, overflow_checks)
    IN  /\ r1.ok
        /\ \/ /\ num_players_in(r1.st) = 1 \/ ~enough_players_checked(r1.st)
              /\ next_in_player(r1.st) = None
           \/ r2.ok /\ next_in_player(r2.st) = None

\* C27: in every reachable state of a started game, whatever its number of
\* seats, no bet that passed its precondition checks aborts because
\* next_in_player finds no seat that has not folded.
C27_NextPlayerExists ==
    \A id \in GameIds :
        (on_state(id) /\ games[id].state.phase \in BetPhases) =>
        \A f \in BetFlags, overflow_checks \in BOOLEAN :
            ~aborts_for_no_seat(games[id].state, f, overflow_checks)

\* the two lists of a lobby are co-indexed and no account is listed twice
well_formed(lobby) ==
    /\ DOMAIN lobby.player_account_ids = DOMAIN lobby.player_game_pubkeys
    /\ \A i, j \in DOMAIN lobby.player_account_ids :
          lobby.player_account_ids[i] = lobby.player_account_ids[j] => i = j

\* C28: in every lobby built by create_game and join_game the identity list
\* and the public-key list have the same length, index 0 is the account that
\* called create_game (create_game lists its caller alone and join_game leaves
\* index 0 as it is) and no identity occurs twice; join_game by an account
\* already listed fails and leaves the lobby unchanged.
C28_LobbyWellFormed ==
    [][\A id \in GameIds :
          (now' = now /\ last'.id = id) =>
          /\ games'[id].kind = "WaitingForPlayers" => well_formed(games'[id].lobby)
          /\ (last'.op = "create_game" /\ last'.ok) =>
                games'[id].lobby.player_account_ids = vec(last'.caller)
          /\ (last'.op = "join_game" /\ games[id].kind = "WaitingForPlayers") =>
                /\ games'[id].lobby.player_account_ids[0] =
                       games[id].lobby.player_account_ids[0]
                /\ last'.caller \in listed(id) => (~last'.ok /\ games' = games)]_vars

\* an account that had joined a lobby of three has been refused a second join
C28_RejoinRefused ==
    \E id \in GameIds :
        /\ games[id].kind = "WaitingForPlayers"
        /\ Cardinality(listed(id)) = 3
        /\ last.op = "join_game" /\ ~last.ok /\ last.id = id
        /\ last.caller \in listed(id)
        /\ last.caller # games[id].lobby.player_account_ids[0]

\* the bet of the seat at turn allows a check: AllIn, or In at exactly the ante
stake_allows_check(s) ==
    \/ s.bets[s.turn].tag = "AllIn"
    \/ s.bets[s.turn].tag = "In" /\ s.bets[s.turn].amt = s.ante

\* C29: a check by the seat at turn succeeds only if that seat's bet is AllIn
\* or In(a) with a equal to the ante (so a seat whose stake is below the ante
\* cannot check); the check action sets that seat's check flag and changes
\* nothing else, and the call leaves ante and balances as they were, the bets
\* as they were unless the round is settled, and the check flags as the action
\* left them unless the sub-round ends.
C29_CheckNeedsStakeAtAnte ==
    [][\A id \in GameIds :
          (/\ on_state(id) /\ last'.op = "bet" /\ last'.ok /\ last'.id = id
           /\ last'.f.check) =>
          LET s  == games[id].state
              s1 == games'[id].state
              r  == bet_action(s, s.turn, last'.f)
          IN  /\ at_turn(s, last'.caller)
              /\ stake_allows_check(s)
              /\ r.ok /\ r.st = [s EXCEPT !.checks[s.turn] = TRUE]
              /\ s1.ante = s.ante /\ s1.balances = s.balances
              /\ s1.phase # "SHUFFLE" => s1.bets = s.bets
              /\ s1.phase = s.phase =>
                    s1.checks = [s.checks EXCEPT ![s.turn] = TRUE]]_vars

\* a seat whose stake equals a raised ante has checked and the betting goes on
C29_CheckedAtAnte ==
    \E id \in GameIds :
        /\ on_state(id)
        /\ last.op = "bet" /\ last.ok /\ last.id = id /\ last.f.check
        /\ games[id].state.phase \in BetPhases
        /\ games[id].state.ante > 0
        /\ \E i \in Seats(games[id].state) :
              /\ games[id].state.checks[i]
              /\ games[id].state.bets[i] = In(games[id].state.ante)

\* C30: no bet action lowers the ante. A raise succeeds only for a seat whose
\* bet is In, whose balance exceeds the ante and with ante < amount <= balance,
\* and sets the ante to the amount; an all-in sets the ante to the larger of
\* the ante and the seat's balance; call, check and fold leave the ante as it
\* was; raise, all-in and call leave every seat's check flag false.
C30_AnteNeverLowered ==
    [][\A id \in GameIds :
          (on_state(id) /\ last'.op = "bet" /\ last'.ok /\ last'.id = id) =>
          LET s  == games[id].state
              s1 == games'[id].state
              f  == last'.f
              p  == s.turn
          IN  /\ ule(s.ante, s1.ante)
              /\ f.raise # None =>
                    /\ s.bets[p].tag = "In"
                    /\ ult(s.ante, s.balances[p])
                    /\ ult(s.ante, f.raise) /\ ule(f.raise, s.balances[p])
                    /\ s1.ante = f.raise
              /\ f.all_in =>
                    s1.ante = IF ult(s.ante, s.balances[p]) THEN s.balances[p] ELSE s.ante
              /\ (f.call \/ f.check \/ f.fold) => s1.ante = s.ante
              /\ (f.raise # None \/ f.all_in \/ f.call) =>
                    \A i \in Seats(s1) : ~s1.checks[i]]_vars

\* a seat whose balance is below the ante has gone all-in and the betting goes on
C30_AllInBelowAnte ==
    \E id \in GameIds :
        /\ on_state(id)
        /\ last.op = "bet" /\ last.ok /\ last.id = id /\ last.f.all_in
        /\ games[id].state.phase \in BetPhases
        /\ \E i \in Seats(games[id].state) :
              /\ games[id].state.bets[i].tag = "AllIn"
              /\ is_player(games[id].state, last.caller)
              /\ player_index(games[id].state, last.caller) = i
              /\ games[id].state.balances[i] < games[id].state.ante

\* C31: in every reachable state, whatever stacks the seats started with,
\* each seat whose bet is In(a) or Folded(a) has a <= its balance, so that
\* transfer_pot never subtracts more than a losing seat holds: no balance has
\* wrapped below zero.
C31_StakeCovered ==
    \A id \in GameIds :
        on_state(id) =>
        \A i \in Seats(games[id].state) :
            /\ games[id].state.bets[i].tag \in {"In", "Folded"} =>
                  ule(games[id].state.bets[i].amt, games[id].state.balances[i])
            /\ games[id].state.balances[i] >= 0

\* a fold has left one seat in, and the pot paid it more than any seat started with
C31_PotPaid ==
    \E id \in GameIds :
        /\ on_state(id)
        /\ last.op = "bet" /\ last.ok /\ last.id = id /\ last.f.fold
        /\ games[id].state.phase = "SHUFFLE"
        /\ \E i, j \in Seats(games[id].state) :
              /\ games[id].state.balances[i] > MaxBalance
              /\ games[id].state.balances[j] < MaxBalance \div 2
              /\ games[id].state.balances[j] > 0

\* the bet requests the seat at turn can make with success on record s
legal_bets(s) ==
    {f \in BetFlags : \E overflow_checks \in BOOLEAN :
        do_bet(s, s.player_account_ids[s.turn], f, overflow_checks).ok}

\* C32: whenever the phase is a betting phase (BET0..BET3) the seat at index
\* turn is not folded, so the seat whose action is required has at least one
\* bet action that succeeds.
C32_TurnSeatNotFolded ==
    \A id \in GameIds :
        (on_state(id) /\ games[id].state.phase \in BetPhases) =>
        /\ ~player_is_folded(games[id].state, games[id].state.turn)
        /\ legal_bets(games[id].state) # {}

\* C33: in every reachable state, whatever stacks the seats started with, no
\* seat's recorded stake exceeds the ante: every seat with bet In(a) has
\* a <= ante.
C33_StakeWithinAnte ==
    \A id \in GameIds :
        on_state(id) =>
        \A i \in Seats(games[id].state) :
            games[id].state.bets[i].tag = "In" =>
                ule(games[id].state.bets[i].amt, games[id].state.ante)

\* C34: every seat's balance is 0 when start_game creates the GameState and no
\* entry point adds chips, so all balances are 0 in every state the calls
\* reach; consequently every blind that succeeds makes its seat AllIn with
\* ante 0, and no raise succeeds, whoever calls and whatever the amount.
C34_NoChips ==
    \A id \in GameIds :
        on_state(id) =>
        /\ \A i \in Seats(games[id].state) : games[id].state.balances[i] = 0
        /\ \A a \in Accounts :
              LET r == blind_result(id, a)
              IN  r.ok => /\ r.st.bets[player_index(r.st, a)] = AllIn
                          /\ r.st.ante = 0
        /\ \A a \in Accounts, f \in AllBetFlags, overflow_checks \in BOOLEAN :
              f.raise # None => ~bet_result(id, a, f, overflow_checks).ok

\* a blind has put the seat at turn all in with ante 0 and opened BET0
C34_BlindAllIn ==
    \E id \in GameIds :
        /\ on_state(id)
        /\ last.op = "blind" /\ last.ok /\ last.id = id
        /\ games[id].state.phase = "BET0"
        /\ games[id].state.bets[games[id].state.turn] = AllIn
        /\ games[id].state.ante = 0

====
